---- MODULE Spec2Model ----
(***************************************************************************)
(* Model of fix_hashes.py: the iterative build / parse / locate / patch    *)
(* loop that replaces placeholder hashes in a JSON manifest.               *)
(*                                                                         *)
(* A JSON value is a node [t, s, kv]: t is "str", "obj" or "arr"; s is the *)
(* text of a string; kv is the ordered sequence of members [k, n] of an    *)
(* object (k the key) or of an array (k = "").  The manifest file is a     *)
(* record [exists, doc, len]: its raw text is the first len tokens of      *)
(* json.dump(doc), so a file cut short by a failed or interrupted write is *)
(* a proper prefix of a document's text.                                   *)
(***************************************************************************)
EXTENDS Integers, Sequences, FiniteSets, TLC

\* ------------------------------------------------------------------ bounds

\* Largest --max-iterations value a run is started with.
MaxIterations == 3
\* A write that fails or is interrupted stops after 0..MaxCut tokens.
MaxCut == 1

\* ------------------------------------------------------------- configuration

\* None, and the value of a regular-expression group that did not match.
NONE == ""

PLACEHOLDER_HASH == "sha256-AAAA="
\* A --placeholder-hash other than the default.
CUSTOM_PLACEHOLDER == "sha256-ZZZZ="

Revs == {"abc123", "def456"}
\* Hashes a build can print after "got:"; the pattern also matches the placeholder.
Hashes == {"sha256-NEWHASH", PLACEHOLDER_HASH}

\* ------------------------------------------------------------------ JSON

Str(s) == [t |-> "str", s |-> s, kv |-> <<>>]
Obj(kv) == [t |-> "obj", s |-> "", kv |-> kv]
Arr(items) == [t |-> "arr", s |-> "", kv |-> [i \in DOMAIN items |-> [k |-> "", n |-> items[i]]]]
KV(k, n) == [k |-> k, n |-> n]

NullNode == Str(NONE)

\* 'key' in obj
HasKey(obj, key) == \E i \in DOMAIN obj.kv : obj.kv[i].k = key
\* obj[key]
Get(obj, key) == obj.kv[CHOOSE i \in DOMAIN obj.kv : obj.kv[i].k = key].n

\* f"{path}[{i}]" for a list index
IdxStr(i) == <<"[0]", "[1]", "[2]", "[3]">>[i]

NotFound == [found |-> FALSE, path |-> <<>>, pos |-> <<>>, entry |-> NullNode]

\* EntryMatches without the test of the hash: any entry of the revision matches.
EntryMatches_any_hash(obj, target_rev, placeholder_hash) ==
    /\ HasKey(obj, "rev") /\ HasKey(obj, "hash")
    /\ Get(obj, "rev") = Str(target_rev)

\* The test of one mapping node against the target.
EntryMatches(obj, target_rev, placeholder_hash) ==
    /\ HasKey(obj, "rev") /\ HasKey(obj, "hash")
    /\ Get(obj, "rev") = Str(target_rev)
    /\ Get(obj, "hash") = Str(placeholder_hash)

RECURSIVE search_recursive(_, _, _, _, _)
RECURSIVE search_members(_, _, _, _, _, _)

\* The first member of obj, from index i on, whose subtree holds a match.
search_members(obj, i, path, pos, target_rev, placeholder_hash) ==
    IF i > Len(obj.kv) THEN NotFound
    ELSE LET seg == IF obj.t = "obj" THEN obj.kv[i].k ELSE IdxStr(i)
             result == search_recursive(obj.kv[i].n, Append(path, seg), Append(pos, i),
                                        target_rev, placeholder_hash)
         IN  IF result.found THEN result
             ELSE search_members(obj, i + 1, path, pos, target_rev, placeholder_hash)

\* search_recursive looking into the members of a mapping before the mapping itself.
search_recursive_members_first(obj, path, pos, target_rev, placeholder_hash) ==
    IF obj.t \in {"obj", "arr"}
       /\ search_members(obj, 1, path, pos, target_rev, placeholder_hash).found
    THEN search_members(obj, 1, path, pos, target_rev, placeholder_hash)
    ELSE IF obj.t = "obj" /\ EntryMatches(obj, target_rev, placeholder_hash)
    THEN [found |-> TRUE, path |-> path, pos |-> pos, entry |-> obj]
    ELSE NotFound

\* path is the sequence of path segments, pos the member indices leading to the node.
search_recursive(obj, path, pos, target_rev, placeholder_hash) ==
    IF obj.t = "obj" /\ EntryMatches(obj, target_rev, placeholder_hash)
    THEN [found |-> TRUE, path |-> path, pos |-> pos, entry |-> obj]
    ELSE IF obj.t \in {"obj", "arr"}
    THEN search_members(obj, 1, path, pos, target_rev, placeholder_hash)
    ELSE NotFound

find_entry_by_rev(data, target_rev, placeholder_hash) ==
    search_recursive(data, <<>>, <<>>, target_rev, placeholder_hash)

\* SetHash assigning nothing: the document is written back as it was read.
SetHash_no_assignment(node, pos, new_hash) == node

\* SetHash assigning to a key spelt "Hash": the entry gains a member, its hash stays.
RECURSIVE SetHash_misspelt_key(_, _, _)
SetHash_misspelt_key(node, pos, new_hash) ==
    IF pos = <<>>
    THEN [node EXCEPT !.kv = Append(node.kv, KV("Hash", Str(new_hash)))]
    ELSE [node EXCEPT !.kv[Head(pos)].n =
              SetHash_misspelt_key(node.kv[Head(pos)].n, Tail(pos), new_hash)]

\* SetHash putting a new mapping of rev and hash in the place of the entry.
RECURSIVE SetHash_drops_fields(_, _, _)
SetHash_drops_fields(node, pos, new_hash) ==
    IF pos = <<>>
    THEN Obj(<<KV("rev", Get(node, "rev")), KV("hash", Str(new_hash))>>)
    ELSE [node EXCEPT !.kv[Head(pos)].n =
              SetHash_drops_fields(node.kv[Head(pos)].n, Tail(pos), new_hash)]

\* entry['hash'] = new_hash, on the node at pos: the key keeps its place.
RECURSIVE SetHash(_, _, _)
SetHash(node, pos, new_hash) ==
    IF pos = <<>>
    THEN [node EXCEPT !.kv = [i \in DOMAIN node.kv |->
              IF node.kv[i].k = "hash" THEN KV("hash", Str(new_hash)) ELSE node.kv[i]]]
    ELSE [node EXCEPT !.kv[Head(pos)].n = SetHash(node.kv[Head(pos)].n, Tail(pos), new_hash)]

\* The node at pos.
RECURSIVE NodeAt(_, _)
NodeAt(node, pos) ==
    IF pos = <<>> THEN node ELSE NodeAt(node.kv[Head(pos)].n, Tail(pos))

\* json.dump(data, f, indent=2): the text as a sequence of tokens.
RECURSIVE Dump(_)
RECURSIVE DumpMembers(_, _)
DumpMembers(node, i) ==
    IF i > Len(node.kv) THEN <<>>
    ELSE (IF node.t = "obj" THEN <<node.kv[i].k>> ELSE <<>>)
         \o Dump(node.kv[i].n) \o DumpMembers(node, i + 1)

Dump(node) ==
    IF node.t = "str" THEN <<node.s>>
    ELSE IF node.t = "obj" THEN <<"{">> \o DumpMembers(node, 1) \o <<"}">>
    ELSE <<"[">> \o DumpMembers(node, 1) \o <<"]">>

\* The raw text of the file.
Content(f) == SubSeq(Dump(f.doc), 1, f.len)

\* json.load succeeds on the text: it is the whole of a document.
Parses(f) == f.len = Len(Dump(f.doc))

\* open(filepath, 'r') ... f.read() succeeds.
Readable(f) == f.exists

\* content.count(placeholder_hash)
Count(content, placeholder_hash) ==
    Cardinality({i \in DOMAIN content : content[i] = placeholder_hash})

WholeFile(doc) == [exists |-> TRUE, doc |-> doc, len |-> Len(Dump(doc))]
CutFile(doc, k) == [exists |-> TRUE, doc |-> doc, len |-> k]
MissingFile == [exists |-> FALSE, doc |-> NullNode, len |-> 0]

\* ------------------------------------------------------------ build output

\* One line of the build's standard error, as the three patterns see it:
\*   "got"    : "got:    <a>"                                  (a: the hash)
\*   "unpack" : "unpacking source archive /build/<a>.tar.gz"   (a: the revision)
\*   "trying" : "trying <a>/+archive/<b>.tar.gz"               (a: base URL, b: revision)
\*   "other"  : a line none of the patterns matches
Line(kind, a, b) == [kind |-> kind, a |-> a, b |-> b]
Got(h) == Line("got", h, NONE)
Unpack(r) == Line("unpack", r, NONE)
Trying(u, r) == Line("trying", u, r)
Other == Line("other", NONE, NONE)

\* FirstLine taking the last of the lines a pattern matches.
FirstLine_last(matching) ==
    IF matching = {} THEN 0
    ELSE CHOOSE i \in matching : \A j \in matching : i >= j

\* re.search: the first of the lines a pattern matches, 0 when it matches none.
FirstLine(matching) ==
    IF matching = {} THEN 0
    ELSE CHOOSE i \in matching : \A j \in matching : i <= j

\* The lines of the output of one kind.
LinesOf(output, kind) == {i \in DOMAIN output : output[i].kind = kind}

NoDiag == [rev |-> NONE, new_hash |-> NONE, url |-> NONE]

extract_hash_mismatch_info(output) ==
    LET hash_match == FirstLine(LinesOf(output, "got"))
        rev_match == FirstLine(LinesOf(output, "unpack"))
    IN  IF hash_match = 0 THEN NoDiag
        ELSE LET new_hash == output[hash_match].a IN
             IF rev_match = 0
             THEN LET url_match == FirstLine(LinesOf(output, "trying")) IN
                  IF url_match # 0
                  THEN [rev |-> output[url_match].b, new_hash |-> new_hash,
                        url |-> output[url_match].a]
                  ELSE [rev |-> NONE, new_hash |-> new_hash, url |-> NONE]
             ELSE LET rev == output[rev_match].a
                      url_match == FirstLine({i \in LinesOf(output, "trying") :
                                                 output[i].b = rev})
                  IN  [rev |-> rev, new_hash |-> new_hash,
                       url |-> IF url_match # 0 THEN output[url_match].a ELSE NONE]

\* ------------------------------------------------------------- descriptions

GITHUB_URL == "https://github.com/org/repo"
GOOGLESOURCE_URL == "https://chromium.googlesource.com/chromium/src.git"

\* rev[:12] + "..."
Short(rev) ==
    CASE rev = "abc123" -> "abc123..."
      [] rev = "def456" -> "def456..."
      [] OTHER -> "..."

\* The name the URL patterns extract.
UrlName(url) ==
    CASE url = GITHUB_URL -> "org/repo"
      [] url = GOOGLESOURCE_URL -> "chromium/src"
      [] OTHER -> "repo"

\* io_error: the read raised; any exception gives the short revision.
get_entry_description(f, rev, io_error) ==
    IF io_error \/ ~Readable(f) \/ ~Parses(f) THEN Short(rev)
    ELSE LET r == find_entry_by_rev(f.doc, rev, PLACEHOLDER_HASH) IN
         IF r.found /\ HasKey(r.entry, "url") /\ Get(r.entry, "url").t = "str"
         THEN UrlName(Get(r.entry, "url").s)
         ELSE Short(rev)

\* io_error: the read raised; any exception counts as zero.
count_remaining_placeholders(f, placeholder_hash, io_error) ==
    IF io_error \/ ~Readable(f) THEN 0 ELSE Count(Content(f), placeholder_hash)

\* ------------------------------------------------------------------ patcher

\* Result with True in the place of the success flag, whatever the call met.
Result_reports_success(success, message, entry_path, f, pos) ==
    [success |-> TRUE, message |-> message, entry_path |-> entry_path,
     file |-> f, pos |-> pos]

\* The tuple update_json_by_rev returns, with the file as the call leaves it.
Result(success, message, entry_path, f, pos) ==
    [success |-> success, message |-> message, entry_path |-> entry_path,
     file |-> f, pos |-> pos]

\* update_json_by_rev without the early return of a dry run: it writes all the same.
update_json_by_rev_writes_in_dry_run(f, target_rev, new_hash, placeholder_hash, dry_run, fault, cut) ==
    IF fault = "read" \/ ~Readable(f)
    THEN Result(FALSE, "Error updating file", NONE, f, <<-1>>)
    ELSE IF ~Parses(f)
    THEN Result(FALSE, "Invalid JSON in file", NONE, f, <<-1>>)
    ELSE LET r == find_entry_by_rev(f.doc, target_rev, placeholder_hash) IN
         IF ~r.found
         THEN Result(FALSE, "No entry found", NONE, f, <<-1>>)
         ELSE LET data == SetHash(f.doc, r.pos, new_hash) IN
              IF fault = "write"
              THEN Result(FALSE, "Error updating file", NONE, CutFile(data, cut), r.pos)
              ELSE Result(TRUE, "Updated hash", r.path, WholeFile(data), r.pos)

\* fault: "none"; "read" (open or read raised); "write" (the write raised after the
\* file was truncated and cut tokens were written).  The result carries the file as
\* the call leaves it and the place of the patched entry (<<-1>> when none was).
update_json_by_rev(f, target_rev, new_hash, placeholder_hash, dry_run, fault, cut) ==
    IF fault = "read" \/ ~Readable(f)
    THEN Result(FALSE, "Error updating file", NONE, f, <<-1>>)
    ELSE IF ~Parses(f)
    THEN Result(FALSE, "Invalid JSON in file", NONE, f, <<-1>>)
    ELSE LET r == find_entry_by_rev(f.doc, target_rev, placeholder_hash) IN
         IF ~r.found
         THEN Result(FALSE, "No entry found", NONE, f, <<-1>>)
         ELSE IF dry_run
         THEN Result(TRUE, "Would update hash", r.path, f, <<-1>>)
         ELSE LET data == SetHash(f.doc, r.pos, new_hash) IN
              IF fault = "write"
              THEN Result(FALSE, "Error updating file", NONE, CutFile(data, cut), r.pos)
              ELSE Result(TRUE, "Updated hash", r.path, WholeFile(data), r.pos)

\* ------------------------------------------------------------------ inputs

Entry(rev, hash, url) ==
    Obj(<<KV("url", Str(url)), KV("rev", Str(rev)), KV("hash", Str(hash))>>)
EntryNoUrl(rev, hash) == Obj(<<KV("rev", Str(rev)), KV("hash", Str(hash))>>)

OLD_HASH == "sha256-OLD"

\* One entry holding the placeholder.
DocSingle == Obj(<<KV("repo", Entry("abc123", PLACEHOLDER_HASH, GITHUB_URL))>>)
\* Two entries holding the placeholder.
DocTwo == Obj(<<KV("a", Entry("abc123", PLACEHOLDER_HASH, GITHUB_URL)),
                KV("b", Entry("def456", PLACEHOLDER_HASH, GOOGLESOURCE_URL))>>)
\* An array: the same revision with a real hash first, then with the placeholder.
DocArray == Obj(<<KV("deps", Arr(<<EntryNoUrl("abc123", OLD_HASH),
                                   EntryNoUrl("abc123", PLACEHOLDER_HASH)>>))>>)
\* An entry inside an entry.
DocNested == Obj(<<KV("a", Obj(<<KV("rev", Str("abc123")), KV("hash", Str(OLD_HASH)),
                                 KV("sub", EntryNoUrl("def456", PLACEHOLDER_HASH))>>))>>)
\* Two entries with the same revision, both holding the placeholder; an array on top.
DocDup == Arr(<<Entry("abc123", PLACEHOLDER_HASH, GITHUB_URL),
                Entry("abc123", PLACEHOLDER_HASH, GITHUB_URL)>>)
\* The placeholder in a mapping that has no rev.
DocNoRev == Obj(<<KV("npm", Obj(<<KV("hash", Str(PLACEHOLDER_HASH))>>))>>)
\* An entry holding the custom placeholder.
DocCustom == Obj(<<KV("repo", Entry("abc123", CUSTOM_PLACEHOLDER, GITHUB_URL))>>)
\* No placeholder at all.
DocDone == Obj(<<KV("repo", Entry("abc123", OLD_HASH, GITHUB_URL))>>)

Documents == {DocSingle, DocTwo, DocArray, DocNested, DocDup, DocNoRev, DocCustom, DocDone}

\* The manifest file as a run can find it.
Files == {WholeFile(d) : d \in Documents} \cup {MissingFile, CutFile(DocSingle, 0), CutFile(DocSingle, 9)}

\* The standard error of a build.
Outputs ==
    {<<>>, <<Other>>, <<Unpack("abc123"), Other>>}
    \cup {<<Other, Got(h), Unpack(r)>> : h \in Hashes, r \in Revs}
    \cup {<<Got("sha256-NEWHASH")>>}
    \cup {<<Got("sha256-NEWHASH"), Trying(GITHUB_URL, "def456")>>,
          <<Trying(GITHUB_URL, "abc123"), Got("sha256-NEWHASH"), Unpack("abc123")>>,
          <<Got("sha256-NEWHASH"), Got(PLACEHOLDER_HASH), Unpack("def456"),
            Trying(GITHUB_URL, "abc123")>>}

\* The command line: --dry-run, --max-iterations, --placeholder-hash.  --no-backup is
\* read once, by the backup step, which draws it there.
Args == [dry_run : BOOLEAN, max_iterations : 0..MaxIterations,
         placeholder_hash : {PLACEHOLDER_HASH, CUSTOM_PLACEHOLDER}]

\* ------------------------------------------------------------------- state

VARIABLES
    args,            \* the parsed command line
    file,            \* the manifest file on storage
    pc,              \* the position of main
    state,           \* the state of the fix loop
    exitCode,        \* the process's exit status, -1 while it runs
    iteration,       \* the loop variable of "for iteration in range(max_iterations)"
    processed_revs,  \* set of revisions
    replacements,    \* list of (rev, new_hash, description)
    cur,             \* rev, new_hash, url, description of the iteration under way
    result,          \* success, message of the last update_json_by_rev call
    remaining,       \* the last count of placeholders, -1 before the first
    summary,         \* what print_summary printed
    builds,          \* history: what each run_build_command returned, parsed
    initial,         \* history: the file as the run found it
    patched,         \* history: the places whose hash field was assigned
    parsed,          \* history: the number of extract_hash_mismatch_info calls
    verify,          \* history: "Running final build to verify..." printed, no build since
    swallowed,       \* history: a KeyboardInterrupt was caught by a bare except
    attempts,        \* history: the revisions update_json_by_rev was called with
    stderr,          \* the standard error text, while the parser is exercised on its own
    located          \* what find_entry_by_rev returned, while the locator is exercised on its own

vars == <<args, file, pc, state, exitCode, iteration, processed_revs, replacements, cur,
          result, remaining, summary, builds, initial, patched, parsed, verify, swallowed,
          attempts, stderr, located>>

NoCur == [rev |-> NONE, new_hash |-> NONE, url |-> NONE, description |-> NONE]
NoResult == [success |-> FALSE, message |-> NONE]
NoSummary == [printed |-> FALSE, total |-> 0, entries |-> <<>>]

Init ==
    /\ args \in Args
    /\ file \in Files
    /\ pc = "validate"
    /\ state = "Startup"
    /\ exitCode = -1
    /\ iteration = 0
    /\ processed_revs = {}
    /\ replacements = <<>>
    /\ cur = NoCur
    /\ result = NoResult
    /\ remaining = -1
    /\ summary = NoSummary
    /\ builds = <<>>
    /\ initial = file
    /\ patched = <<>>
    /\ parsed = 0
    /\ verify = FALSE
    /\ swallowed = FALSE
    /\ attempts = <<>>
    /\ stderr = <<>>
    /\ located = NotFound

\* ------------------------------------------------------------------ main

\* sys.exit(code), leaving the loop in state st.
Exit(code, st) ==
    /\ pc' = "exited"
    /\ exitCode' = code
    /\ state' = st

\* range_has_next running one iteration too many.
range_has_next_off_by_one(i, max_iterations) == i <= max_iterations

\* "for iteration in range(args.max_iterations)" has another value.
range_has_next(i, max_iterations) == i < max_iterations

\* build_succeeded with the test the wrong way round.
build_succeeded_inverted(returncode) == returncode # 0

\* "if process.returncode == 0"
build_succeeded(returncode) == returncode = 0

\* already_processed finding no revision processed.
already_processed_never(rev, processed) == FALSE

\* "if rev in processed_revs"
already_processed(rev, processed) == rev \in processed

\* mark_processed forgetting the revision.
mark_processed_forgets(rev, processed) == processed

\* "processed_revs.add(rev)"
mark_processed(rev, processed) == processed \cup {rev}

\* preview_concludes with the break outside "if remaining == 0".
preview_concludes_on_any_count(count, dry_run) == dry_run

\* "if remaining == 0" and then "if not args.dry_run ... else: break"
preview_concludes(count, dry_run) == count = 0 /\ dry_run

\* The places a write that does not complete can stop at.
Cuts(f) == {k \in 0..MaxCut : k < Len(Dump(f.doc))}

\* The end of the loop body, or a continue.
NextIteration ==
    /\ iteration' = iteration + 1
    /\ cur' = NoCur
    /\ pc' = "loop"

\* StartupCheck without the json.load of the validation.
StartupCheck_no_validation(f) ==
    IF ~f.exists THEN "ManifestNotFound" ELSE "ok"

\* "if not os.path.exists(args.json_file)" and the json.load that follows it.
StartupCheck(f) ==
    IF ~f.exists THEN "ManifestNotFound"
    ELSE IF ~Parses(f) THEN "ManifestInvalid"
    ELSE "ok"

\* The file exists and holds valid JSON, or the process exits 1.
Validate ==
    /\ pc = "validate"
    /\ IF StartupCheck(file) # "ok" THEN Exit(1, StartupCheck(file))
       ELSE pc' = "backup" /\ UNCHANGED <<exitCode, state>>
    /\ UNCHANGED <<attempts, stderr, located>>
    /\ UNCHANGED <<args, file, iteration, processed_revs, replacements, cur, result,
                   remaining, summary, builds, initial, patched, parsed, verify, swallowed>>

\* The backup copy; when it fails the operator is asked whether to go on.
Backup ==
    /\ pc = "backup"
    /\ \E no_backup \in BOOLEAN, outcome \in {"copied", "failed_yes", "failed_no"} :
          IF ~no_backup /\ ~args.dry_run /\ outcome = "failed_no"
          THEN Exit(0, "AbortedAtBackup")
          ELSE pc' = "count_initial" /\ UNCHANGED <<exitCode, state>>
    /\ UNCHANGED <<attempts, stderr, located>>
    /\ UNCHANGED <<args, file, iteration, processed_revs, replacements, cur, result,
                   remaining, summary, builds, initial, patched, parsed, verify, swallowed>>

\* What can happen to a read inside a function that catches everything: nothing,
\* an I/O error, or a KeyboardInterrupt (the bare except catches it as well).
ReadFaults == {"none", "error", "interrupt"}

\* The count of placeholders before the loop: nothing to do ends the process.
CountInitial ==
    /\ pc = "count_initial"
    /\ \E fault \in ReadFaults :
          LET initial_count ==
                  count_remaining_placeholders(file, args.placeholder_hash, fault # "none")
          IN  /\ swallowed' = (swallowed \/ fault = "interrupt")
              /\ IF initial_count > 0
                 THEN pc' = "loop" /\ state' = "Running" /\ UNCHANGED exitCode
                 ELSE Exit(0, "NothingToDo")
    /\ UNCHANGED <<attempts, stderr, located>>
    /\ UNCHANGED <<args, file, iteration, processed_revs, replacements, cur, result,
                   remaining, summary, builds, initial, patched, parsed, verify>>

BuildRecord(rc, d) == [rc |-> rc, rev |-> d.rev, new_hash |-> d.new_hash]

\* Classify taking a build that printed no hash for one that printed no revision.
Classify_never_unrelated(d) ==
    IF d.new_hash # NONE /\ d.rev # NONE THEN "patch" ELSE "no_rev"

\* Classify taking a hash without a revision for a failure of another kind.
Classify_no_rev_is_unrelated(d) ==
    IF d.new_hash # NONE /\ d.rev # NONE THEN "patch" ELSE "unrelated"

\* The branch main takes on what the parser returned:
\* "if new_hash and rev", "elif new_hash", "else".
Classify(d) ==
    IF d.new_hash # NONE /\ d.rev # NONE THEN "patch"
    ELSE IF d.new_hash # NONE THEN "no_rev"
    ELSE "unrelated"

\* One pass of the loop from the build to the branch on what the parser found.
ForNext ==
    /\ pc = "loop"
    /\ range_has_next(iteration, args.max_iterations)
    /\ \E returncode \in {0, 1}, output \in Outputs :
          IF build_succeeded(returncode)
          THEN /\ builds' = Append(builds, BuildRecord(returncode, NoDiag))
               /\ state' = "Success"
               /\ pc' = "summary"
               /\ UNCHANGED <<iteration, processed_revs, cur, parsed>>
          ELSE LET d == extract_hash_mismatch_info(output) IN
               /\ builds' = Append(builds, BuildRecord(returncode, d))
               /\ parsed' = parsed + 1
               /\ UNCHANGED state
               /\ IF Classify(d) = "patch"
                  THEN IF already_processed(d.rev, processed_revs)
                       THEN NextIteration /\ UNCHANGED processed_revs
                       ELSE /\ processed_revs' = mark_processed(d.rev, processed_revs)
                            /\ cur' = [rev |-> d.rev, new_hash |-> d.new_hash,
                                       url |-> d.url, description |-> NONE]
                            /\ pc' = "describe"
                            /\ UNCHANGED iteration
                  ELSE IF Classify(d) = "no_rev"
                  THEN NextIteration /\ UNCHANGED processed_revs
                  ELSE pc' = "unrelated" /\ UNCHANGED <<iteration, processed_revs, cur>>
    /\ verify' = FALSE
    /\ UNCHANGED <<attempts, stderr, located>>
    /\ UNCHANGED <<args, file, exitCode, replacements, result, remaining, summary, initial,
                   patched, swallowed>>

\* The else of the for loop: every iteration ran and none broke out.
ForElse ==
    /\ pc = "loop"
    /\ ~range_has_next(iteration, args.max_iterations)
    /\ state' = "ExhaustedIterations"
    /\ pc' = "summary"
    /\ UNCHANGED <<attempts, stderr, located>>
    /\ UNCHANGED <<args, file, exitCode, iteration, processed_revs, replacements, cur,
                   result, remaining, summary, builds, initial, patched, parsed, verify,
                   swallowed>>

\* description = get_entry_description(args.json_file, rev)
Describe ==
    /\ pc = "describe"
    /\ \E fault \in ReadFaults :
          /\ cur' = [cur EXCEPT
                        !.description = get_entry_description(file, cur.rev, fault # "none")]
          /\ swallowed' = (swallowed \/ fault = "interrupt")
    /\ pc' = "update"
    /\ UNCHANGED <<attempts, stderr, located>>
    /\ UNCHANGED <<args, file, state, exitCode, iteration, processed_revs, replacements,
                   result, remaining, summary, builds, initial, patched, parsed, verify>>

\* The call of update_json_by_rev and the branch on its result.
Update ==
    /\ pc = "update"
    /\ \E fault \in {"none", "read", "write"}, cut \in Cuts(file) :
          LET r == update_json_by_rev(file, cur.rev, cur.new_hash, args.placeholder_hash,
                                      args.dry_run, fault, cut)
          IN  /\ file' = r.file
              /\ result' = [success |-> r.success, message |-> r.message]
              /\ patched' = IF r.pos # <<-1>> THEN Append(patched, r.pos) ELSE patched
              /\ IF r.success
                 THEN /\ replacements' =
                            Append(replacements, <<cur.rev, cur.new_hash, cur.description>>)
                      /\ pc' = "recount"
                      /\ UNCHANGED <<iteration, cur>>
                 ELSE NextIteration /\ UNCHANGED replacements
    /\ attempts' = Append(attempts, cur.rev)
    /\ UNCHANGED <<stderr, located>>
    /\ UNCHANGED <<args, state, exitCode, processed_revs, remaining, summary, builds,
                   initial, parsed, verify, swallowed>>

\* A KeyboardInterrupt while json.dump writes: "except Exception" does not catch it.
UpdateInterrupted ==
    /\ pc = "update"
    /\ \E cut \in Cuts(file) :
          LET r == update_json_by_rev(file, cur.rev, cur.new_hash, args.placeholder_hash,
                                      args.dry_run, "write", cut)
          IN  /\ r.pos # <<-1>>
              /\ file' = r.file
              /\ patched' = Append(patched, r.pos)
    /\ Exit(130, "UserAborted")
    /\ attempts' = Append(attempts, cur.rev)
    /\ UNCHANGED <<stderr, located>>
    /\ UNCHANGED <<args, iteration, processed_revs, replacements, cur, result, remaining,
                   summary, builds, initial, parsed, verify, swallowed>>

\* The count after a patch; zero ends a preview run and announces a last build otherwise.
Recount ==
    /\ pc = "recount"
    /\ \E fault \in ReadFaults :
          /\ remaining' =
                count_remaining_placeholders(file, args.placeholder_hash, fault # "none")
          /\ swallowed' = (swallowed \/ fault = "interrupt")
          /\ verify' = (remaining' = 0 /\ ~args.dry_run)
          /\ IF preview_concludes(remaining', args.dry_run)
             THEN state' = "PreviewConcluded" /\ pc' = "summary" /\ UNCHANGED <<iteration, cur>>
             ELSE NextIteration /\ UNCHANGED state
    /\ UNCHANGED <<attempts, stderr, located>>
    /\ UNCHANGED <<args, file, exitCode, processed_revs, replacements, result, summary,
                   builds, initial, patched, parsed>>

\* The build failed and printed no hash: sys.exit(1).
Unrelated ==
    /\ pc = "unrelated"
    /\ \E fault \in ReadFaults :
          /\ remaining' =
                count_remaining_placeholders(file, args.placeholder_hash, fault # "none")
          /\ swallowed' = (swallowed \/ fault = "interrupt")
    /\ Exit(1, "UnrecoverableBuildFailure")
    /\ UNCHANGED <<attempts, stderr, located>>
    /\ UNCHANGED <<args, file, iteration, processed_revs, replacements, cur, result,
                   summary, builds, initial, patched, parsed, verify>>

\* print_summary(replacements, elapsed_time), and main returns.
Summary ==
    /\ pc = "summary"
    /\ summary' = [printed |-> TRUE, total |-> Len(replacements), entries |-> replacements]
    /\ pc' = "exited"
    /\ exitCode' = 0
    /\ UNCHANGED <<attempts, stderr, located>>
    /\ UNCHANGED <<args, file, state, iteration, processed_revs, replacements, cur,
                   result, remaining, builds, initial, patched, parsed, verify, swallowed>>

\* KeyboardInterrupt reaches the handler around main(): sys.exit(130).
Interrupt ==
    /\ pc # "exited"
    /\ Exit(130, "UserAborted")
    /\ UNCHANGED <<attempts, stderr, located>>
    /\ UNCHANGED <<args, file, iteration, processed_revs, replacements, cur, result,
                   remaining, summary, builds, initial, patched, parsed, verify, swallowed>>

Next ==
    \/ Validate
    \/ Backup
    \/ CountInitial
    \/ ForNext
    \/ ForElse
    \/ Describe
    \/ Update
    \/ UpdateInterrupted
    \/ Recount
    \/ Unrelated
    \/ Summary
    \/ Interrupt

Spec == Init /\ [][Next]_vars

\* The process is sequential and every step of it returns: it keeps taking steps.
FairSpec == Spec /\ WF_vars(Next)

\* ------------------------------------------ the locator and the patcher alone

\* The calls of update_json_by_rev made on one manifest.
MaxPatches == 2

\* A match below the first key, deeper than a match at the second key.
DocDeepFirst == Obj(<<KV("a", Obj(<<KV("x", EntryNoUrl("abc123", PLACEHOLDER_HASH))>>)),
                      KV("b", EntryNoUrl("abc123", PLACEHOLDER_HASH))>>)
\* The document itself is an entry, and so is one of its members.
DocParentChild == Obj(<<KV("rev", Str("abc123")), KV("hash", Str(PLACEHOLDER_HASH)),
                        KV("sub", Entry("abc123", PLACEHOLDER_HASH, GITHUB_URL))>>)

PatchDocuments == Documents \cup {DocDeepFirst, DocParentChild}

\* A manifest, and the arguments every call is made with: cur.rev, cur.new_hash,
\* args.placeholder_hash, args.dry_run.
PatchInit ==
    /\ args \in [dry_run : BOOLEAN, max_iterations : {MaxPatches},
                 placeholder_hash : {PLACEHOLDER_HASH, CUSTOM_PLACEHOLDER}]
    /\ file \in {WholeFile(d) : d \in PatchDocuments}
    /\ cur \in [rev : Revs, new_hash : Hashes, url : {NONE}, description : {NONE}]
    /\ pc = "locate"
    /\ state = "Startup"
    /\ exitCode = -1
    /\ iteration = 0
    /\ processed_revs = {}
    /\ replacements = <<>>
    /\ result = NoResult
    /\ remaining = -1
    /\ summary = NoSummary
    /\ builds = <<>>
    /\ initial = file
    /\ patched = <<>>
    /\ parsed = 0
    /\ verify = FALSE
    /\ swallowed = FALSE
    /\ attempts = <<>>
    /\ stderr = <<>>
    /\ located = NotFound

\* data = json.load(f); find_entry_by_rev(data, target_rev, placeholder_hash)
Locate ==
    /\ pc = "locate"
    /\ Readable(file) /\ Parses(file)
    /\ located' = find_entry_by_rev(file.doc, cur.rev, args.placeholder_hash)
    /\ pc' = "patch"
    /\ UNCHANGED <<args, file, state, exitCode, iteration, processed_revs, replacements,
                   cur, result, remaining, summary, builds, initial, patched, parsed,
                   verify, swallowed, attempts, stderr>>

\* One call of update_json_by_rev; the locator is tried again on what it leaves when
\* that is a document.
Patch ==
    /\ pc = "patch"
    /\ \E fault \in {"none", "read", "write"}, cut \in Cuts(file) :
          LET r == update_json_by_rev(file, cur.rev, cur.new_hash, args.placeholder_hash,
                                      args.dry_run, fault, cut)
          IN  /\ file' = r.file
              /\ result' = [success |-> r.success, message |-> r.message]
              /\ patched' = IF r.pos # <<-1>> THEN Append(patched, r.pos) ELSE patched
              /\ pc' = IF Len(attempts) + 1 >= MaxPatches THEN "done"
                       ELSE IF Parses(r.file) THEN "locate" ELSE "patch"
    /\ attempts' = Append(attempts, cur.rev)
    /\ UNCHANGED <<args, state, exitCode, iteration, processed_revs, replacements, cur,
                   remaining, summary, builds, initial, parsed, verify, swallowed, stderr,
                   located>>

PatchNext == Locate \/ Patch

PatchSpec == PatchInit /\ [][PatchNext]_vars

\* ------------------------------------------------------------ the parser alone

\* The lines of a standard error text.
MaxLines == 3

\* The lines the three patterns tell apart.
Lines ==
    {Other} \cup {Got(h) : h \in Hashes} \cup {Unpack(r) : r \in Revs}
    \cup {Trying(GITHUB_URL, r) : r \in Revs}

\* Every text of at most MaxLines lines.
Texts == UNION {[1..n -> Lines] : n \in 0..MaxLines}

ParseInit ==
    /\ args \in [dry_run : {FALSE}, max_iterations : {1},
                 placeholder_hash : {PLACEHOLDER_HASH}]
    /\ stderr \in Texts
    /\ file = MissingFile
    /\ pc = "parse"
    /\ state = "Startup"
    /\ exitCode = -1
    /\ iteration = 0
    /\ processed_revs = {}
    /\ replacements = <<>>
    /\ cur = NoCur
    /\ result = NoResult
    /\ remaining = -1
    /\ summary = NoSummary
    /\ builds = <<>>
    /\ initial = file
    /\ patched = <<>>
    /\ parsed = 0
    /\ verify = FALSE
    /\ swallowed = FALSE
    /\ attempts = <<>>
    /\ located = NotFound

\* rev, new_hash, url = extract_hash_mismatch_info(process.stderr)
Parse ==
    /\ pc = "parse"
    /\ LET d == extract_hash_mismatch_info(stderr) IN
       cur' = [rev |-> d.rev, new_hash |-> d.new_hash, url |-> d.url, description |-> NONE]
    /\ parsed' = parsed + 1
    /\ pc' = "parsed"
    /\ UNCHANGED <<args, file, state, exitCode, iteration, processed_revs, replacements,
                   result, remaining, summary, builds, initial, patched, verify, swallowed,
                   attempts, stderr, located>>

ParseNext == Parse

ParseSpec == ParseInit /\ [][ParseNext]_vars

\* ------------------------------------------------------------------ claims

\* The places of the entries of a document: the mappings with both rev and hash.
RECURSIVE EntryPositions(_, _)
EntryPositions(node, pos) ==
    (IF node.t = "obj" /\ HasKey(node, "rev") /\ HasKey(node, "hash") THEN {pos} ELSE {})
    \cup UNION {EntryPositions(node.kv[i].n, Append(pos, i)) : i \in DOMAIN node.kv}

HashAt(doc, pos) == Get(NodeAt(doc, pos), "hash")

\* The startup validation passed.
PassedValidation == pc # "validate" /\ initial.exists /\ Parses(initial)

\* No place was assigned twice.
C1_NoPlaceTwice ==
    \A i, j \in DOMAIN patched : i # j => patched[i] # patched[j]

\* A step assigns only a hash field that holds the placeholder, and an entry whose hash
\* is not the placeholder has the same hash after any step that leaves a whole document.
C1_StepKeepsResolved ==
    \A p \in EntryPositions(file.doc, <<>>) :
        (Parses(file) /\ HashAt(file.doc, p) # Str(args.placeholder_hash))
        => /\ (patched' # patched => patched'[Len(patched')] # p)
           /\ (Parses(file') => HashAt(file'.doc, p) = HashAt(file.doc, p))

\* C1: in one run each manifest entry has its hash field written at most once: an entry
\* whose hash is not the placeholder is never modified, and no entry is patched twice.
C1_PatchedAtMostOnce == [](C1_NoPlaceTwice) /\ [][C1_StepKeepsResolved]_vars

\* An entry was patched and a later build printed the diagnostic of its revision again.
C1_Witness ==
    /\ Len(patched) = 1 /\ Len(builds) >= 2 /\ pc = "loop"
    /\ builds[1].rev # NONE /\ builds[2].rev = builds[1].rev
    /\ builds[2].new_hash # NONE
    /\ Parses(file) /\ file # initial

\* C2: after the startup validation passed, the manifest file on storage is a complete,
\* parseable JSON document in every state, a failed or interrupted write included.
C2_FileAlwaysParses == PassedValidation => Parses(file)

\* The last build of the history.
LastBuild == builds[Len(builds)]

\* This step ran a build.
BuildStep == builds' # builds

C3_Bound ==
    /\ Len(builds) <= args.max_iterations
    /\ (state = "ExhaustedIterations" => Len(builds) = args.max_iterations)
    /\ (pc = "exited" => state # "Running")

\* C3: whatever the builds return, the build command runs at most max_iterations times
\* and the run reaches a terminal state; a run that ends in ExhaustedIterations ran
\* exactly max_iterations builds.
C3_BoundedAndTerminates == [](C3_Bound) /\ <>(pc = "exited")

\* The loop ran out after the largest number of builds and the process ended.
C3_Witness ==
    /\ pc = "exited" /\ state = "ExhaustedIterations"
    /\ Len(builds) = MaxIterations /\ args.max_iterations = MaxIterations
    /\ \A i \in DOMAIN builds : builds[i].rc # 0

\* A step that runs a build returning 0 parses nothing, patches nothing, leaves the
\* manifest as it is and moves to Success; from Success on nothing of that changes.
C4_Step ==
    ((BuildStep /\ builds'[Len(builds')].rc = 0) \/ state = "Success")
    => /\ (BuildStep => state # "Success" /\ state' = "Success" /\ pc' = "summary")
       /\ (state = "Success" => ~BuildStep)
       /\ file' = file
       /\ parsed' = parsed
       /\ patched' = patched
       /\ replacements' = replacements
       /\ processed_revs' = processed_revs

\* C4: a build that returns exit status 0 moves the loop to Success and stops it: the
\* output is not parsed, no patch is attempted, the manifest is not modified and no
\* further build runs.
C4_SuccessStops == [][C4_Step]_vars

\* A run that patched an entry and then ended in Success on a later build.
C4_Witness ==
    /\ pc = "exited" /\ state = "Success" /\ exitCode = 0
    /\ Len(builds) >= 2 /\ LastBuild.rc = 0
    /\ Len(replacements) >= 1 /\ parsed = Len(builds) - 1

\* The build that just ran failed and printed no hash.
UnrelatedBuild(b) == b.rc # 0 /\ b.rev = NONE /\ b.new_hash = NONE

\* The step of a failed build with no hash goes to the unrelated-failure exit with the
\* manifest as it was; the step from there ends the process with a nonzero status, in
\* UnrecoverableBuildFailure (status 1) unless an interrupt ends it first, and runs
\* no build.
C5_Step ==
    /\ (BuildStep /\ UnrelatedBuild(builds'[Len(builds')]))
       => (pc' = "unrelated" /\ file' = file /\ patched' = patched
           /\ replacements' = replacements)
    /\ pc = "unrelated"
       => /\ pc' = "exited" /\ exitCode' # 0 /\ ~BuildStep /\ file' = file
          /\ state' \in {"UnrecoverableBuildFailure", "UserAborted"}
          /\ (state' = "UnrecoverableBuildFailure" => exitCode' = 1)

C5_State ==
    /\ pc = "unrelated" => UnrelatedBuild(LastBuild)
    /\ state = "UnrecoverableBuildFailure"
       => pc = "exited" /\ exitCode = 1 /\ UnrelatedBuild(LastBuild)
    /\ (builds # <<>> /\ UnrelatedBuild(LastBuild))
       => (pc \in {"unrelated", "exited"} /\ state # "Success")

\* C5: when a build fails and the parser finds neither a hash nor a revision, the loop
\* moves to UnrecoverableBuildFailure and stops: no further build runs, that iteration
\* leaves the manifest unchanged, and the process exits nonzero.
C5_UnrelatedFailureStops == [](C5_State) /\ [][C5_Step]_vars

\* An unrelated failure after an earlier iteration patched an entry.
C5_Witness ==
    /\ state = "UnrecoverableBuildFailure" /\ exitCode = 1
    /\ Len(builds) >= 2 /\ Len(replacements) >= 1 /\ file # initial

\* C6: on completion in any terminal state (Success, ExhaustedIterations,
\* UnrecoverableBuildFailure, UserAborted) the run has printed the summary: the count
\* of updated entries and the (revision, hash, description) records accumulated so far.
\* Stated here of the three terminal states the loop reaches by itself; a run ended by
\* an interrupt is the subject of C7.
C6_SummaryInEveryTerminalState ==
    (pc = "exited" /\ state \in {"Success", "ExhaustedIterations",
                                 "UnrecoverableBuildFailure"})
    => /\ summary.printed
       /\ summary.total = Len(replacements)
       /\ summary.entries = replacements

\* C7: an interrupt stops the run before a new build starts, the summary of the
\* replacements made so far is still printed, and the process ends with status 130.
\* (Stated of the runs interrupted after a replacement was made.)
C7_InterruptStillSummarises ==
    (pc = "exited" /\ state = "UserAborted" /\ replacements # <<>>)
    => /\ exitCode = 130
       /\ summary.printed
       /\ summary.entries = replacements

\* The other half of C7, which also fails: after an interrupt that arrived inside
\* get_entry_description or count_remaining_placeholders no build starts.
C7_NoBuildAfterInterrupt == [][swallowed => ~BuildStep]_vars

\* In a dry run a patch call that can read the file and locates the entry succeeds,
\* and its record is appended.
C8_Step ==
    (/\ args.dry_run /\ pc = "update" /\ pc' # "exited"
     /\ Parses(file)
     /\ find_entry_by_rev(file.doc, cur.rev, args.placeholder_hash).found
     /\ result'.message # "Error updating file")
    => /\ result'.success
       /\ pc' = "recount"
       /\ replacements' = Append(replacements, <<cur.rev, cur.new_hash, cur.description>>)

\* C8: in preview mode the manifest file is never written, so the stored document is
\* the one the run started with, while a patch whose entry is located returns success
\* and is recorded.
C8_PreviewNeverWrites == [](args.dry_run => file = initial /\ patched = <<>>) /\ [][C8_Step]_vars

\* A preview run that recorded two replacements and ended.
C8_Witness ==
    /\ args.dry_run /\ pc = "exited" /\ state = "ExhaustedIterations"
    /\ Len(replacements) = 2 /\ summary.total = 2 /\ file = initial

\* C9: after a successful patch that brings the count of placeholders to zero, outside
\* preview mode one more build runs before the run ends, at every iteration index, the
\* last allowed one included; in preview mode the loop concludes without another build.
C9_ConfirmingBuildAlwaysRuns ==
    /\ (state = "ExhaustedIterations" => ~verify)
    /\ (state = "PreviewConcluded" => args.dry_run /\ remaining = 0)

\* The scenario of C10: outside preview mode, with at least two iterations allowed, the
\* manifest holds the placeholder once, in the entry of revision r, and build 1 failed
\* with the mismatch of r and a computed hash h (which is not the placeholder) and no
\* I/O error met the patch.
C10_Scenario ==
    /\ ~args.dry_run /\ args.max_iterations >= 2
    /\ initial.exists /\ Parses(initial)
    /\ Count(Content(initial), args.placeholder_hash) = 1
    /\ Len(builds) >= 1
    /\ builds[1].rc # 0 /\ builds[1].rev # NONE /\ builds[1].new_hash # NONE
    /\ builds[1].new_hash # args.placeholder_hash
    /\ find_entry_by_rev(initial.doc, builds[1].rev, args.placeholder_hash).found
    /\ result.message # "Error updating file"

C10_Entry == find_entry_by_rev(initial.doc, builds[1].rev, args.placeholder_hash)

\* C10: in that scenario, after iteration 1 the entry's hash is h and the count of
\* placeholders is 0; and when build 2 exits 0 the run ends in Success after exactly
\* two builds with exactly one replacement record (r, h, description).
C10_EndToEnd ==
    /\ (C10_Scenario /\ iteration = 1 /\ pc = "loop" /\ Len(builds) = 1)
       => /\ Parses(file)
          /\ HashAt(file.doc, C10_Entry.pos) = Str(builds[1].new_hash)
          /\ file.doc = SetHash(initial.doc, C10_Entry.pos, builds[1].new_hash)
          /\ Count(Content(file), args.placeholder_hash) = 0
          /\ remaining = 0
    /\ (C10_Scenario /\ Len(builds) >= 2 /\ builds[2].rc = 0 /\ pc = "exited"
        /\ state # "UserAborted")
       => /\ state = "Success" /\ exitCode = 0
          /\ Len(builds) = 2
          /\ Len(replacements) = 1
          /\ replacements[1][1] = builds[1].rev
          /\ replacements[1][2] = builds[1].new_hash
          /\ replacements[1][3] \in {get_entry_description(initial, builds[1].rev, FALSE),
                                     Short(builds[1].rev)}
          /\ summary.total = 1

\* The scenario of the specification ran to its end.
C10_Witness ==
    /\ C10_Scenario /\ initial = WholeFile(DocSingle)
    /\ pc = "exited" /\ state = "Success" /\ Len(builds) = 2
    /\ replacements = <<<<"abc123", "sha256-NEWHASH", "org/repo">>>>
    /\ HashAt(file.doc, <<1>>) = Str("sha256-NEWHASH")

\* Every build of bs failed with a hash and the revision of the first one.
SameDiagnostic(bs) ==
    \A i \in DOMAIN bs :
        /\ bs[i].rc # 0 /\ bs[i].new_hash # NONE
        /\ bs[i].rev # NONE /\ bs[i].rev = bs[1].rev

\* While every build failed with the same revision's diagnostic: the patcher was called
\* at most once, the manifest was written at most once, the revision is in the processed
\* set, and a run that ended by itself ended after exactly max_iterations builds.
C11_State ==
    (builds # <<>> /\ SameDiagnostic(builds))
    => /\ Len(attempts) <= 1 /\ Len(patched) <= 1 /\ Len(replacements) <= 1
       /\ builds[1].rev \in processed_revs
       /\ (pc = "exited" /\ state \notin {"UserAborted", "PreviewConcluded"})
          => /\ state = "ExhaustedIterations" /\ exitCode = 0
             /\ Len(builds) = args.max_iterations

\* A second or later build with that diagnostic finds the revision processed and goes
\* straight to the next iteration; from the second build on no step calls the patcher,
\* writes the manifest or appends a record.
C11_Step ==
    /\ (BuildStep /\ builds # <<>> /\ SameDiagnostic(builds'))
       => /\ builds'[Len(builds')].rev \in processed_revs
          /\ pc' = "loop" /\ iteration' = iteration + 1
          /\ processed_revs' = processed_revs
    /\ ((Len(builds) >= 2 \/ (BuildStep /\ builds # <<>>)) /\ SameDiagnostic(builds'))
       => /\ file' = file /\ patched' = patched
          /\ attempts' = attempts /\ replacements' = replacements

\* C11: if every build fails with the same revision's hash-mismatch diagnostic, then
\* from the second iteration on the loop finds the revision in the processed set, makes
\* no further patch and no further manifest write, and a run that is not cut short (by
\* an interrupt, or by a preview count that read zero) ends in ExhaustedIterations after
\* exactly max_iterations builds.  That the run ends at all is C3.
C11_IterationCap == [](C11_State) /\ [][C11_Step]_vars

\* Three builds printed the diagnostic of one revision; the first was patched.
C11_Witness ==
    /\ pc = "exited" /\ state = "ExhaustedIterations"
    /\ Len(builds) = MaxIterations /\ SameDiagnostic(builds)
    /\ Len(replacements) = 1 /\ Len(patched) = 1 /\ attempts = <<builds[1].rev>>
    /\ ~args.dry_run /\ file # initial

\* The manifest the run found is a whole JSON document.
C12_InitialWhole == initial.exists /\ initial.len = Len(Dump(initial.doc))

\* C12: no build command is ever invoked unless the startup checks passed: a missing or
\* unparseable manifest ends the process with status 1 before any loop iteration, and a
\* manifest with no occurrence of the placeholder ends it with status 0 before any loop
\* iteration.
C12_NoBuildBeforeStartupChecks ==
    /\ (builds # <<>> \/ iteration > 0 \/ state = "Running")
       => (C12_InitialWhole /\ Count(Content(initial), args.placeholder_hash) > 0)
    /\ state \in {"ManifestNotFound", "ManifestInvalid"}
       => (pc = "exited" /\ exitCode = 1 /\ builds = <<>> /\ iteration = 0)
    /\ state = "NothingToDo"
       => (pc = "exited" /\ exitCode = 0 /\ builds = <<>> /\ iteration = 0)
    /\ (pc = "exited" /\ ~initial.exists)
       => state \in {"ManifestNotFound", "UserAborted"}
    /\ (pc = "exited" /\ initial.exists /\ ~C12_InitialWhole)
       => state \in {"ManifestInvalid", "UserAborted"}
    /\ (pc = "exited" /\ C12_InitialWhole
        /\ Count(Content(initial), args.placeholder_hash) = 0)
       => state \in {"NothingToDo", "AbortedAtBackup", "UserAborted"}

\* A manifest cut short that still holds the placeholder: the run ended at the check.
C12_Witness ==
    /\ pc = "exited" /\ state = "ManifestInvalid" /\ exitCode = 1
    /\ initial.exists /\ Count(Content(initial), args.placeholder_hash) > 0
    /\ builds = <<>>

\* The places of the entries of doc whose rev is rev and whose hash is exactly hash.
MatchingPositions(doc, rev, hash) ==
    {p \in EntryPositions(doc, <<>>) :
        /\ Get(NodeAt(doc, p), "rev") = Str(rev)
        /\ HashAt(doc, p) = Str(hash)}

\* C13 as it is stated, for every document: after a successful patch of the entry for
\* (rev, placeholder), a repeated locate for the same (rev, placeholder) on the
\* resulting document returns not-found.
C13_RepeatedLocateNotFound ==
    (pc = "patch" /\ attempts # <<>> /\ result.success /\ ~args.dry_run)
    => ~located.found

\* The manifest the calls started on has at most one entry matching (rev, placeholder),
\* and the computed hash is not the placeholder.
C13_UniqueEntry ==
    /\ Cardinality(MatchingPositions(initial.doc, cur.rev, args.placeholder_hash)) <= 1
    /\ cur.new_hash # args.placeholder_hash

C13_State ==
    (C13_UniqueEntry /\ pc = "patch" /\ attempts # <<>> /\ result.success
     /\ ~args.dry_run)
    => /\ ~located.found
       /\ MatchingPositions(file.doc, cur.rev, args.placeholder_hash) = {}

C13_Step ==
    (C13_UniqueEntry /\ pc = "patch" /\ attempts # <<>> /\ result.success
     /\ ~args.dry_run)
    => /\ ~result'.success
       /\ file' = file /\ patched' = patched

\* C13, amended: when at most one entry of the document matches (rev, placeholder) and
\* the computed hash is not the placeholder, then after update_json_by_rev has patched
\* the entry a repeated find_entry_by_rev for the same (rev, placeholder) returns
\* not-found, and a second patch call with the same arguments fails and changes nothing.
C13_IdempotentWhenUnique == [](C13_State) /\ [][C13_Step]_vars

\* The second call on a patched manifest found no entry.
C13_Witness ==
    /\ C13_UniqueEntry /\ ~args.dry_run /\ pc = "done"
    /\ Len(attempts) = 2 /\ Len(patched) = 1
    /\ Parses(file) /\ file # initial
    /\ ~located.found /\ result.message = "No entry found"

\* p comes before q in depth-first order: a node before its members, members by index.
RECURSIVE PosBefore(_, _)
PosBefore(p, q) ==
    IF p = <<>> THEN q # <<>>
    ELSE IF q = <<>> THEN FALSE
    ELSE IF Head(p) # Head(q) THEN Head(p) < Head(q)
    ELSE PosBefore(Tail(p), Tail(q))

\* C14: find_entry_by_rev returns at most one entry, the first mapping in depth-first
\* document order (a node before its children, keys in stored order, array elements by
\* index) that has rev and hash fields with rev equal to the target and hash exactly
\* equal to the placeholder; an entry of the revision with another hash is never
\* returned, and not-found is returned iff there is no such mapping.
C14_FirstMatchInDocumentOrder ==
    (pc = "patch" /\ Parses(file))
    => LET matching == MatchingPositions(file.doc, cur.rev, args.placeholder_hash) IN
       /\ located.found <=> matching # {}
       /\ ~located.found => located = NotFound
       /\ located.found
          => /\ located.pos \in matching
             /\ located.entry = NodeAt(file.doc, located.pos)
             /\ \A q \in matching \ {located.pos} : PosBefore(located.pos, q)

\* Two mappings match, the deeper one under the first key: that one is returned.
C14_Witness ==
    /\ pc = "patch" /\ file = WholeFile(DocDeepFirst)
    /\ MatchingPositions(file.doc, cur.rev, args.placeholder_hash) = {<<1, 1>>, <<2>>}
    /\ located.found /\ located.pos = <<1, 1>> /\ located.path = <<"a", "x">>

\* A call that succeeds outside preview mode leaves a whole document whose text is the
\* text before with one token changed: the value of the "hash" key of the located
\* entry, from the placeholder to the computed hash.  A call on a document in which
\* the locator finds nothing fails and leaves the file as it is.
C19_Step ==
    pc = "patch"
    => /\ (result'.success /\ ~args.dry_run)
          => LET old == Dump(file.doc)
                 new == Dump(file'.doc)
             IN  /\ Parses(file) /\ Parses(file')
                 /\ located.found /\ patched' = Append(patched, located.pos)
                 /\ HashAt(file.doc, located.pos) = Str(args.placeholder_hash)
                 /\ HashAt(file'.doc, located.pos) = Str(cur.new_hash)
                 /\ EntryPositions(file'.doc, <<>>) = EntryPositions(file.doc, <<>>)
                 /\ \A q \in EntryPositions(file.doc, <<>>) \ {located.pos} :
                       HashAt(file'.doc, q) = HashAt(file.doc, q)
                 /\ Len(new) = Len(old)
                 /\ \E i \in DOMAIN old :
                       /\ i > 1 /\ old[i - 1] = "hash"
                       /\ old[i] = args.placeholder_hash /\ new[i] = cur.new_hash
                       /\ \A j \in DOMAIN old \ {i} : new[j] = old[j]
       /\ (Parses(file) /\ ~located.found)
          => (~result'.success /\ file' = file /\ patched' = patched)

\* C19: each successful non-preview patch changes exactly one thing in the document: the
\* hash field of the located entry goes from the placeholder to the computed hash, and
\* every other entry, field and value is the same before and after; a patch call that
\* matches no entry leaves the stored document untouched.
C19_PatchChangesOneField == [][C19_Step]_vars

\* Of two entries that match, the first was patched and the second is as it was.
C19_Witness ==
    /\ initial = WholeFile(DocDup) /\ ~args.dry_run
    /\ Len(attempts) = 1 /\ result.success /\ patched = <<<<1>>>>
    /\ HashAt(file.doc, <<1>>) = Str("sha256-NEWHASH")
    /\ HashAt(file.doc, <<2>>) = Str(PLACEHOLDER_HASH)
    /\ Get(NodeAt(file.doc, <<1>>), "url") = Str(GITHUB_URL)

\* Line i is the first line of the text of kind kind.
C15_IsFirst(i, kind) ==
    /\ i \in DOMAIN stderr /\ stderr[i].kind = kind
    /\ \A j \in 1..(i - 1) : stderr[j].kind # kind

\* The text has a line of kind kind.
C15_Has(kind) == \E i \in DOMAIN stderr : stderr[i].kind = kind

\* C15: extract_hash_mismatch_info classifies build output into three distinguishable
\* outcomes: with no "got:" hash line it returns all-null whatever other lines are
\* present; with a hash line it returns the first hash together with the revision of
\* the "unpacking source archive" line if one exists, otherwise the revision and URL of
\* the archive-URL fallback if one exists, otherwise revision null with the hash still
\* present.
C15_ParserOutcomes ==
    pc = "parsed"
    => /\ ~C15_Has("got")
          => (cur.rev = NONE /\ cur.new_hash = NONE /\ cur.url = NONE)
       /\ C15_Has("got")
          => /\ \E i \in DOMAIN stderr : C15_IsFirst(i, "got") /\ cur.new_hash = stderr[i].a
             /\ cur.new_hash # NONE
             /\ C15_Has("unpack")
                => \E i \in DOMAIN stderr :
                      C15_IsFirst(i, "unpack") /\ cur.rev = stderr[i].a
             /\ (~C15_Has("unpack") /\ C15_Has("trying"))
                => \E i \in DOMAIN stderr :
                      /\ C15_IsFirst(i, "trying")
                      /\ cur.rev = stderr[i].b /\ cur.url = stderr[i].a
             /\ (~C15_Has("unpack") /\ ~C15_Has("trying"))
                => (cur.rev = NONE /\ cur.url = NONE)
       /\ Classify(cur) = (IF ~C15_Has("got") THEN "unrelated"
                           ELSE IF C15_Has("unpack") \/ C15_Has("trying") THEN "patch"
                           ELSE "no_rev")

\* Two hash lines and no unpacking line: the first hash, and the revision and URL of
\* the archive URL.
C15_Witness ==
    /\ pc = "parsed"
    /\ stderr = <<Trying(GITHUB_URL, "abc123"), Got(PLACEHOLDER_HASH), Got("sha256-NEWHASH")>>
    /\ cur.rev = "abc123" /\ cur.new_hash = PLACEHOLDER_HASH /\ cur.url = GITHUB_URL

\* The build that just ran failed and printed a hash but no revision.
NoRevBuild(b) == b.rc # 0 /\ b.rev = NONE /\ b.new_hash # NONE

\* The step of a failed build that yields a hash and no revision changes nothing but
\* the loop variable: it goes on to the next iteration with the run still Running.
C16_Step ==
    (BuildStep /\ NoRevBuild(builds'[Len(builds')]))
    => /\ file' = file /\ processed_revs' = processed_revs
       /\ replacements' = replacements
       /\ patched' = patched /\ attempts' = attempts
       /\ pc' = "loop" /\ iteration' = iteration + 1
       /\ state' = "Running" /\ exitCode' = -1

\* C16: an iteration whose failed build yields a hash but no revision modifies nothing:
\* the manifest, the processed-revision set and the replacement log are unchanged, and
\* the loop continues to the next iteration instead of terminating.
C16_NoRevChangesNothing == [][C16_Step]_vars

\* After an iteration with a hash and no revision, a later iteration patched an entry.
C16_Witness ==
    /\ Len(builds) >= 2 /\ NoRevBuild(builds[1])
    /\ builds[2].rc # 0 /\ builds[2].rev # NONE
    /\ Len(replacements) = 1 /\ Len(patched) = 1 /\ file # initial

\* The call of the patcher about to be made cannot succeed: the file is missing or is
\* not a document, or no entry of the document matches.
C17_MustFail ==
    \/ ~Readable(file) \/ ~Parses(file)
    \/ MatchingPositions(file.doc, cur.rev, args.placeholder_hash) = {}

\* A patcher call that returns (the run is not interrupted in it) and reports failure
\* appends no record and goes on to the next iteration, the run still Running; and the
\* call fails whenever it cannot succeed.
C17_Step ==
    (pc = "update" /\ pc' # "exited")
    => /\ C17_MustFail => ~result'.success
       /\ ~result'.success
          => /\ result'.message \in {"No entry found", "Invalid JSON in file",
                                     "Error updating file"}
             /\ replacements' = replacements
             /\ pc' = "loop" /\ iteration' = iteration + 1
             /\ state' = "Running" /\ exitCode' = -1

\* The process ends with status 1 only at the startup checks, with no build run, or
\* after a build that failed and printed no hash.
C17_State ==
    /\ (pc = "exited" /\ exitCode = 1)
       => \/ state \in {"ManifestNotFound", "ManifestInvalid"} /\ builds = <<>>
          \/ state = "UnrecoverableBuildFailure" /\ UnrelatedBuild(LastBuild)
    /\ (pc = "exited" /\ exitCode \notin {0, 1})
       => (exitCode = 130 /\ state = "UserAborted")

\* C17: a patcher failure never ends the run: when update_json_by_rev reports failure
\* (entry not found, malformed document, or I/O failure), no replacement record is
\* appended and the loop proceeds to the next build iteration if any remains; the only
\* escalations to process termination are the manifest-load failure at startup and an
\* unrelated build failure.
C17_PatcherFailureRecoverable == [](C17_State) /\ [][C17_Step]_vars

\* Two patcher calls failed, one on a cut file, and a third build ran.
C17_Witness ==
    /\ Len(attempts) = 2 /\ replacements = <<>> /\ Len(builds) = 3
    /\ ~Parses(file) /\ result.message = "Invalid JSON in file"

\* The build that just ran failed with a hash and a revision.
PatchBuild(b) == b.rc # 0 /\ b.rev # NONE /\ b.new_hash # NONE

\* The patcher was called at most once with each revision, every revision it was called
\* with is marked, and the revision of the iteration under way was marked before the
\* call that is still to come.
C18_State ==
    /\ \A i, j \in DOMAIN attempts : i # j => attempts[i] # attempts[j]
    /\ \A i \in DOMAIN attempts : attempts[i] \in processed_revs
    /\ pc \in {"describe", "update"}
       => /\ cur.rev \in processed_revs
          /\ \A i \in DOMAIN attempts : attempts[i] # cur.rev

\* The set only grows; a diagnostic of a marked revision skips the patch and goes to the
\* next iteration; a diagnostic of another revision marks it before anything else; and
\* the patcher is called with the revision of the iteration under way.
C18_Step ==
    /\ processed_revs \subseteq processed_revs'
    /\ (BuildStep /\ PatchBuild(builds'[Len(builds')]))
       => LET rev == builds'[Len(builds')].rev IN
          /\ attempts' = attempts /\ file' = file
          /\ rev \in processed_revs
             => (pc' = "loop" /\ iteration' = iteration + 1
                 /\ processed_revs' = processed_revs)
          /\ rev \notin processed_revs
             => (pc' = "describe" /\ cur'.rev = rev
                 /\ processed_revs' = processed_revs \cup {rev})
    /\ attempts' # attempts
       => (pc = "update" /\ attempts' = Append(attempts, cur.rev))

\* C18: the processed-revision set only grows, and the patcher is invoked at most once
\* per revision in a run: a revision is marked processed before its patch is attempted,
\* so when the same diagnostic recurs the iteration skips the patch and continues, also
\* when the earlier attempt for that revision failed (the revision is then never
\* retried).
C18_AtMostOncePerRevision == [](C18_State) /\ [][C18_Step]_vars

\* The only attempt for a revision failed, its diagnostic came again twice, and the
\* entry still holds the placeholder.
C18_Witness ==
    /\ Len(builds) = 3 /\ SameDiagnostic(builds) /\ pc = "loop" /\ iteration = 3
    /\ Len(attempts) = 1 /\ replacements = <<>> /\ ~result.success
    /\ file = initial
    /\ MatchingPositions(file.doc, builds[1].rev, args.placeholder_hash) # {}

\* In a preview run the count after a patch is taken on the manifest the run started
\* with, which holds the placeholder: it is that positive count and the loop goes on,
\* or it is the zero of a failed read and the loop concludes.
C20_Step ==
    (args.dry_run /\ pc = "recount" /\ pc' # "exited")
    => /\ file = initial /\ Readable(file)
       /\ Count(Content(file), args.placeholder_hash) > 0
       /\ remaining' \in {Count(Content(initial), args.placeholder_hash), 0}
       /\ remaining' # 0 => (pc' = "loop" /\ state' = "Running")
       /\ remaining' = 0 => (pc' = "summary" /\ state' = "PreviewConcluded")

\* A preview run ends by a successful build, an unrelated build failure or the cap (or
\* at startup, or by an interrupt); it concludes that all placeholders are replaced
\* only on a count of zero read while the manifest still holds the placeholder.
C20_State ==
    /\ (args.dry_run /\ pc = "exited")
       => state \in {"Success", "UnrecoverableBuildFailure", "ExhaustedIterations",
                     "PreviewConcluded", "UserAborted", "NothingToDo",
                     "ManifestNotFound", "ManifestInvalid"}
    /\ (args.dry_run /\ remaining > 0)
       => remaining = Count(Content(initial), args.placeholder_hash)
    /\ state = "PreviewConcluded"
       => /\ args.dry_run /\ remaining = 0
          /\ Readable(file) /\ Count(Content(file), args.placeholder_hash) > 0

\* C20: in preview mode, as long as the manifest stays readable, the remaining count
\* recomputed after every successful patch equals the initial (positive) count, so the
\* "all placeholders replaced" conclusion is never taken and a preview run ends only by
\* a successful build, an unrelated build failure, or the iteration cap; the count can
\* read zero there only through the counter's convention of returning zero on a failed
\* read.
C20_PreviewCountStaysInitial == [](C20_State) /\ [][C20_Step]_vars

\* A preview run counted the two placeholders again after each of two patches and went
\* on to a successful build.
C20_Witness ==
    /\ args.dry_run /\ pc = "exited" /\ state = "Success"
    /\ Len(replacements) = 2 /\ remaining = 2
    /\ Count(Content(initial), args.placeholder_hash) = 2

====
